---- MODULE Spec2Model ----
(***************************************************************************)
(* McDonald's outlet scraper: the search-and-paginate walk of              *)
(* McDonaldsOutletScraper.scrape_outlets and the per-card field extraction *)
(* of _extract_outlet_info (src/src/scraper/mcdonalds_scraper.py),         *)
(* concurrent calls of scrape_mcdonalds_outlets (src/src/scraper/utils.py) *)
(* and the API and service over the outlets collection                     *)
(* (src/src/api/mcdonalds_api.py, src/src/services/outlet_service.py,      *)
(* src/src/database).                                                      *)
(*                                                                         *)
(* Conventions.  A Python string that the code trims is a tuple of         *)
(* one-character strings, "" being << >>.  An optional value (None, a      *)
(* missing DOM node) is << >> and a present value v is << v >>.  Floats    *)
(* are integers.                                                           *)
(***************************************************************************)
EXTENDS Integers, Sequences, FiniteSets, TLC

VARIABLES
    pc,            \* position of the scrape_outlets call
    search_term,   \* argument of scrape_outlets
    driver,        \* self.driver: 0 is None, else the id of a browser
    wait,          \* self.wait: 0 is None, else the id of the browser it waits on
    browsers,      \* browser processes launched so far: browsers[id] = number of quit() calls received
    dom,           \* the page the browser of this call currently shows
    all_outlets,   \* local all_outlets of scrape_outlets
    page_number,   \* local page_number of scrape_outlets
    pending,       \* the exception in flight, "none" when there is none
    outcome,       \* how the call ended: "none", "returned" or "raised"
    result,        \* the value handed to the caller: << >> no list, << l >> the list l
    opened,        \* history: id of the browser this call launched, 0 when none
    shown,         \* history: the cards of the pages extracted so far, in order
    initial_page,  \* history: what the initial navigation reached
    failed_at,     \* history: the step that raised the pending exception
    has_next_ret,  \* history: last value returned by _has_next_page
    advance_ret,   \* history: last value returned by _go_to_next_page
    trail,         \* history: the last step scrape_outlets entered
    card,          \* extraction specification: the card handed to _extract_outlet_info
    outlet_data,   \* extraction specification: << >> or << the record returned >>
    set_order,     \* the order in which this process iterates a set of tag strings
    calls,         \* concurrent calls: the scrape_mcdonalds_outlets calls in flight
    chromes,       \* concurrent calls: the Chrome processes launched so far
    requests,      \* service: the API requests, each with the position of its handler
    is_connected,  \* service: db_manager.is_connected
    unique_index,  \* service: the unique index on (name, address) exists on the server
    collection,    \* service: the documents of the outlets collection, in insertion order
    job,           \* store: the scrape_and_store_outlets or rescrape_all_outlets call under way
    clock,         \* store: datetime.utcnow() as a tick count; also numbers the ObjectIds
    others         \* store: (history) the database operations of other requests so far

vars == << pc, search_term, driver, wait, browsers, dom, all_outlets, page_number,
           pending, outcome, result, opened, shown, initial_page, failed_at,
           has_next_ret, advance_ret, trail, card, outlet_data, set_order, calls, chromes,
           requests, is_connected, unique_index, collection, job, clock, others >>

-----------------------------------------------------------------------------
(* Bounds of the model *)

\* cards the site shows over all the pages of one scrape
MaxSiteCards == 3
\* page_number is only written to the log; the model stops counting here
MaxPageNumber == 3
\* JSON-LD script nodes of a card in the extraction specification
MaxScripts == 2
\* tooltip-text nodes of a card in the extraction specification
MaxTooltips == 2
\* address-text nodes after the address itself, in the extraction specification
MaxContactTexts == 2
\* anchors of a card with an href, in the extraction specification
MaxAnchors == 2
\* tooltip anchors of the addressTop of a card, in the extraction specification
MaxTagAnchors == 3
\* scrape_mcdonalds_outlets calls that can be in flight together
NumCalls == 2
\* page advances of one call in the specification of concurrent calls
MaxTurns == 1
\* POST requests in the service specification
NumRequests == 2
\* outlets one scrape returns in the service specification
MaxBatch == 1
\* records one scrape returns in the store specification
MaxOutlets == 2

SeqsUpTo(S, n) == UNION { [1..k -> S] : k \in 0..n }

-----------------------------------------------------------------------------
(* Text *)

WS == " "
NL == "\n"

\* the characters str.strip() removes, as far as the model's texts hold them
Whitespace == { WS, NL }

\* the characters of a string literal, one per element
Chars(str) == [i \in 1..Len(str) |-> SubSeq(str, i, i)]

\* str.strip(): drop leading and trailing whitespace
RECURSIVE LStrip(_)
LStrip(s) == IF s # << >> /\ Head(s) \in Whitespace THEN LStrip(Tail(s)) ELSE s

RECURSIVE RStrip(_)
RStrip(s) ==
    IF s # << >> /\ s[Len(s)] \in Whitespace
    THEN RStrip(SubSeq(s, 1, Len(s) - 1))
    ELSE s

Strip(s) == RStrip(LStrip(s))

\* str.lower() on the letters the model's texts hold
LowerChar(ch) ==
    CASE ch = "A" -> "a" [] ch = "H" -> "h" [] ch = "M" -> "m"
      [] ch = "P" -> "p" [] ch = "O" -> "o" [] ch = "T" -> "t"
      [] OTHER -> ch

Lower(s) == [i \in DOMAIN s |-> LowerChar(s[i])]

\* s.startswith(sub)
StartsWith(s, sub) == Len(sub) <= Len(s) /\ SubSeq(s, 1, Len(sub)) = sub

\* sub in s
Contains(s, sub) ==
    \E i \in 1..(Len(s) - Len(sub) + 1) : SubSeq(s, i, i + Len(sub) - 1) = sub

\* s.replace(old, new): every occurrence, left to right, without overlap
RECURSIVE Replace(_, _, _)
Replace(s, old, new) ==
    IF s = << >> THEN << >>
    ELSE IF StartsWith(s, old)
    THEN new \o Replace(SubSeq(s, Len(old) + 1, Len(s)), old, new)
    ELSE << Head(s) >> \o Replace(Tail(s), old, new)

\* s.split(sep): the pieces between the occurrences of sep, at least one piece
RECURSIVE SplitFrom(_, _, _)
SplitFrom(s, sep, piece) ==
    IF s = << >> THEN << piece >>
    ELSE IF StartsWith(s, sep)
    THEN << piece >> \o SplitFrom(SubSeq(s, Len(sep) + 1, Len(s)), sep, << >>)
    ELSE SplitFrom(Tail(s), sep, Append(piece, Head(s)))

Split(s, sep) == SplitFrom(s, sep, << >>)

\* sep.join(parts)
RECURSIVE Join(_, _)
Join(parts, sep) ==
    IF parts = << >> THEN << >>
    ELSE IF Len(parts) = 1 THEN parts[1]
    ELSE parts[1] \o sep \o Join(Tail(parts), sep)

-----------------------------------------------------------------------------
(* JSON-LD values and float() *)

None == << >>
Some(v) == << v >>

\* JSON values found under "latitude" / "longitude"
JNum(n) == [t |-> "num", s |-> "", v |-> n]
JStr(x) == [t |-> "str", s |-> x, v |-> 0]
JNull == [t |-> "null", s |-> "", v |-> 0]

\* float() of a Python string: the number it spells, None for a ValueError
ParseFloat(x) ==
    CASE x = "0" -> Some(0)
      [] x = "0.0" -> Some(0)
      [] x = "3" -> Some(3)
      [] x = "3.0" -> Some(3)
      [] OTHER -> None

\* float(value): Some(number), or None when it raises ValueError or TypeError
Float(j) ==
    CASE j.t = "num" -> Some(j.v)
      [] j.t = "str" -> ParseFloat(j.s)
      [] OTHER -> None

\* truth value of an optional float: None and 0.0 are false
Truthy(x) == x # None /\ x[1] # 0

\* the f-string "https://waze.com/ul?ll={lat},{lng}&z=15"
WazeLink(lat, lng) == << "https://waze.com/ul?ll=", lat, ",", lng, "&z=15" >>

\* script nodes: innerHTML that is no JSON, JSON without a geo dict, JSON with one
\* whose keys are absent (None) or hold a JSON value
ScriptMalformed == [kind |-> "malformed", lat |-> None, lng |-> None]
ScriptNoGeo == [kind |-> "nogeo", lat |-> None, lng |-> None]
ScriptGeo(lat, lng) == [kind |-> "geo", lat |-> lat, lng |-> lng]

\* lines 196-214: the scan of the script nodes from node i on, with the
\* coordinates found so far
RECURSIVE ScanScripts(_, _, _, _)
ScanScripts(scripts, i, lat, lng) ==
    IF i > Len(scripts)
    THEN [latitude |-> lat, longitude |-> lng, waze_link |-> None]
    ELSE LET sc == scripts[i] IN
         IF sc.kind = "malformed"
         THEN ScanScripts(scripts, i + 1, lat, lng)        \* JSONDecodeError: continue
         ELSE IF sc.kind = "nogeo"
         THEN ScanScripts(scripts, i + 1, lat, lng)        \* condition of line 199 false
         ELSE LET flat == IF sc.lat = None THEN None ELSE Float(sc.lat[1])
                  flng == IF sc.lng = None THEN None ELSE Float(sc.lng[1])
              IN  IF sc.lat # None /\ flat = None
                  THEN ScanScripts(scripts, i + 1, lat, lng)   \* line 202 raises
                  ELSE LET lat2 == IF sc.lat # None THEN flat ELSE lat IN
                       IF sc.lng # None /\ flng = None
                       THEN ScanScripts(scripts, i + 1, lat2, lng) \* line 204 raises
                       ELSE LET lng2 == IF sc.lng # None THEN flng ELSE lng IN
                            [latitude |-> lat2, longitude |-> lng2,
                             waze_link |-> IF Truthy(lat2) /\ Truthy(lng2)
                                           THEN Some(WazeLink(lat2[1], lng2[1]))
                                           ELSE None]

-----------------------------------------------------------------------------
(* _extract_outlet_info *)

\* lines 163-169: text of ".addressTitle strong", trimmed; "" when the node is missing
ExtractName(c) == IF c.name = None THEN << >> ELSE Strip(c.name[1])

\* lines 171-178: text of the first ".addressText", trimmed; "" when there is none
ExtractAddress(c) == IF c.addressText = << >> THEN << >> ELSE Strip(c.addressText[1])

\* line 155: the default of operating_hours
DefaultOperatingHours == Chars("8am - 12pm")

\* line 186: the keywords looked for in the lowercased tooltip text
HoursKeywords == { Chars("hours"), Chars("hour"), Chars("24"), Chars("am"), Chars("pm") }

\* faulty variant of HasHoursKeyword: the text is not lowercased
HasHoursKeywordCaseSensitive(text) == \E kw \in HoursKeywords : Contains(text, kw)

\* line 186: any(keyword in tooltip_text.lower() for keyword in [...])
HasHoursKeyword(text) == \E kw \in HoursKeywords : Contains(Lower(text), kw)

\* lines 183-189: the loop over the ".ed-tooltiptext" nodes from node i on
RECURSIVE ScanTooltips(_, _)
ScanTooltips(tooltips, i) ==
    IF i > Len(tooltips)
    THEN DefaultOperatingHours
    ELSE LET tooltip_text == Strip(tooltips[i]) IN
         IF HasHoursKeyword(tooltip_text)
         THEN Strip(Replace(tooltip_text, << NL >>, << WS >>))
         ELSE ScanTooltips(tooltips, i + 1)

\* lines 180-191
ExtractHours(c) == ScanTooltips(c.tooltips, 1)

\* faulty variant of IsLabelled: only "Tel:" counts as a label
IsLabelledTelOnly(text) == text # << >> /\ Contains(text, Chars("Tel:"))

\* line 224: text and ("Tel:" in text or "Fax:" in text or "Phone:" in text)
IsLabelled(text) ==
    /\ text # << >>
    /\ \/ Contains(text, Chars("Tel:"))
       \/ Contains(text, Chars("Fax:"))
       \/ Contains(text, Chars("Phone:"))

\* lines 222-227: the loop over the ".addressText" nodes from node i on;
\* "" when no node is labelled
RECURSIVE ScanAddressTexts(_, _)
ScanAddressTexts(address_texts, i) ==
    IF i > Len(address_texts)
    THEN << >>
    ELSE LET text == Strip(address_texts[i]) IN
         IF IsLabelled(text) THEN text ELSE ScanAddressTexts(address_texts, i + 1)

\* lines 233-240: the loop over the anchors matching a[href*='tel:'] from
\* anchor i on; "" when no href starts with "tel:"
RECURSIVE ScanTelLinks(_, _)
ScanTelLinks(tel_links, i) ==
    IF i > Len(tel_links)
    THEN << >>
    ELSE LET href == tel_links[i] IN
         IF href # << >> /\ StartsWith(href, Chars("tel:"))
         THEN Strip(Replace(href, Chars("tel:"), << >>))
         ELSE ScanTelLinks(tel_links, i + 1)

\* lines 218-244
ExtractTelephone(c) ==
    LET telephone == ScanAddressTexts(c.addressText, 1) IN
    IF telephone = << >>
    THEN ScanTelLinks(SelectSeq(c.anchors, LAMBDA h : Contains(h, Chars("tel:"))), 1)
    ELSE telephone

\* a tooltip anchor of the addressTop: its ".ed-tooltiptext" node is missing,
\* has gone stale when its textContent is read, or yields that textContent
TagAnchor(tip, content) == [tip |-> tip, content |-> content]

\* textContent values of ".ed-tooltiptext" nodes (not trimmed, caret part after
\* the first line)
TagContents == { Chars("WiFi\nfree"), Chars("A, B"), Chars(" B"), << NL >> }

\* lines 261-266: the tag made of a textContent, "" when nothing is left
CleanTag(content) ==
    LET tooltip_text == Strip(content) IN
    IF tooltip_text = << >> THEN << >> ELSE Strip(Split(tooltip_text, << NL >>)[1])

\* the tags the contents of TagContents can give
TagUniverse == { CleanTag(content) : content \in TagContents } \ { << >> }

\* the iteration orders of a set of strings: one per hash seed of the process
SetOrders ==
    { o \in [1..Cardinality(TagUniverse) -> TagUniverse] :
        \A i, j \in DOMAIN o : o[i] = o[j] => i = j }

\* faulty variant of ListOfSet: the parts are not deduplicated
ListOfSetKeepAll(parts) == parts

\* line 275: list(set(attribute_parts))
ListOfSet(parts) ==
    SelectSeq(set_order, LAMBDA t : \E k \in DOMAIN parts : parts[k] = t)

\* lines 256-271: the loop over the tooltip anchors from anchor i on, with the
\* parts appended so far
RECURSIVE ScanTagAnchors(_, _, _)
ScanTagAnchors(anchors, i, parts) ==
    IF i > Len(anchors)
    THEN [raised |-> "none", parts |-> parts]
    ELSE IF anchors[i].tip = "missing"
    THEN ScanTagAnchors(anchors, i + 1, parts)    \* NoSuchElementException: continue
    ELSE IF anchors[i].tip = "stale"
    THEN [raised |-> "StaleElementReferenceException", parts |-> parts]
    ELSE LET cleaned_text == CleanTag(anchors[i].content) IN
         ScanTagAnchors(anchors, i + 1,
                        IF cleaned_text # << >> THEN Append(parts, cleaned_text) ELSE parts)

\* lines 246-281: "" when there is no addressTop, when no tag was collected
\* and when an exception reached the handlers of lines 278-281
ExtractAttribute(c) ==
    IF c.addressTop = None
    THEN << >>
    ELSE LET r == ScanTagAnchors(c.addressTop[1], 1, << >>) IN
         IF r.raised # "none" \/ r.parts = << >>
         THEN << >>
         ELSE Join(ListOfSet(r.parts), Chars(", "))

\* the fields a card can fail on: a DOM access of the block of that field
\* raises StaleElementReferenceException
FieldFaults ==
    { "name", "address", "operating_hours", "coordinates", "telephone", "attribute" }

\* the blocks whose handler catches NoSuchElementException only (lines 168,
\* 177, 190, 215); "stale" is a card element that is stale at its first use
UncaughtFaults == { "stale", "name", "address", "operating_hours", "coordinates" }

\* lines 142-283.  An exception other than NoSuchElementException raised in
\* the name, address, hours or coordinates block is caught by no handler of
\* the function; the telephone and attribute blocks catch Exception (lines
\* 243, 280) and leave their field at its default.
extract_outlet_info(c) ==
    IF c.fault \in UncaughtFaults
    THEN [raised |-> "StaleElementReferenceException", data |-> None]
    ELSE LET geo == ScanScripts(c.scripts, 1, None, None) IN
         [raised |-> "none",
          data |-> Some([name |-> ExtractName(c),
                         address |-> ExtractAddress(c),
                         operating_hours |-> ExtractHours(c),
                         waze_link |-> geo.waze_link,
                         latitude |-> geo.latitude,
                         longitude |-> geo.longitude,
                         telephone |-> IF c.fault = "telephone"
                                       THEN << >>
                                       ELSE ExtractTelephone(c),
                         attribute |-> IF c.fault = "attribute"
                                       THEN << >>
                                       ELSE ExtractAttribute(c)])]

\* faulty variant of KeepOutlet: every card is kept
KeepOutletAlways(data) == TRUE

\* faulty variant of KeepOutlet: a card also needs an address
KeepOutletNameAndAddress(data) == data.name # << >> /\ data.address # << >>

\* line 305: "Only add if we have at least a name"
KeepOutlet(data) == data.name # << >>

\* lines 303-306: the loop over the cards found, from card i on, with the
\* outlets appended so far
RECURSIVE OutletsLoop(_, _, _)
OutletsLoop(cards, i, outlets) ==
    IF i > Len(cards)
    THEN [raised |-> "none", outlets |-> outlets]
    ELSE LET r == extract_outlet_info(cards[i]) IN
         IF r.raised # "none"
         THEN [raised |-> r.raised, outlets |-> << >>]
         ELSE IF KeepOutlet(r.data[1])
         THEN OutletsLoop(cards, i + 1, Append(outlets, r.data[1]))
         ELSE OutletsLoop(cards, i + 1, outlets)

\* faulty variant of get_all_outlets_on_page: the TimeoutException is not caught
get_all_outlets_on_page_uncaught(cards) ==
    IF cards = << >>
    THEN [raised |-> "TimeoutException", outlets |-> << >>]
    ELSE OutletsLoop(cards, 1, << >>)

\* lines 285-311: presence_of_all_elements_located returns the cards when there is
\* at least one and times out otherwise; the TimeoutException is caught
get_all_outlets_on_page(cards) ==
    IF cards = << >>
    THEN [raised |-> "none", outlets |-> << >>]
    ELSE OutletsLoop(cards, 1, << >>)

-----------------------------------------------------------------------------
(* The pages the site can show *)

Text(x) == << x >>

\* a card: the nodes _extract_outlet_info looks for
Card(fault, name, addressText, scripts) ==
    [fault |-> fault, name |-> name, addressText |-> addressText, scripts |-> scripts,
     tooltips |-> << >>, anchors |-> << >>, addressTop |-> None]

CardFull == Card("none", Some(<< "M", WS >>), << Text("J") >>,
                 << ScriptGeo(Some(JStr("3.0")), Some(JNum(101))) >>)
CardBlankName == Card("none", Some(<< WS >>), << Text("J") >>, << >>)
CardNoName == Card("none", None, << Text("J") >>, << >>)
CardNoAddress == Card("none", Some(Text("N")), << >>, << >>)
CardStale == Card("stale", Some(Text("S")), << Text("J") >>, << >>)

CardPool == { CardFull, CardBlankName, CardNoName, CardNoAddress, CardStale }

\* the elements matching ".pagination .next:not(.disabled), .next-page:not(.disabled)"
\* in document order, each given by its is_enabled()
ControlLists == { << >>, << TRUE >>, << FALSE >>, << FALSE, TRUE >> }

Page(kind, cards, controls) == [kind |-> kind, cards |-> cards, controls |-> controls]

BlankPage == Page("blank", << >>, << >>)
\* the locator page came up but its listing never does
NoListingPage == Page("no_listing", << >>, << >>)
\* an error page: neither search controls nor listing
BrokenPage == Page("broken", << >>, << >>)

\* a listing page; zero cards is a search that matched nothing
Pages(n) == { Page("listing", cs, ct) : cs \in SeqsUpTo(CardPool, n), ct \in ControlLists }
                \cup { NoListingPage, BrokenPage }

\* what a navigation can bring up: the site shows at most MaxSiteCards cards
\* during one scrape; pages without cards are not limited, so a site can go on
\* answering a click with the same card-less page
Loadable == Pages(MaxSiteCards - Len(shown))

-----------------------------------------------------------------------------
(* Pagination helpers *)

\* lines 313-325: find_element yields the first match; none is NoSuchElementException
has_next_page(controls) == IF controls = << >> THEN FALSE ELSE controls[1]

\* lines 334-343: clicks the first match when it is enabled
go_to_next_page(controls) == IF controls = << >> THEN FALSE ELSE controls[1]

\* lines 380-382
AfterHasNext(b) == IF b THEN "go_next" ELSE "finally"

\* faulty variant of AfterAdvance: the value returned by _go_to_next_page is ignored
AfterAdvanceIgnored(b) == "extract"

\* lines 385-389
AfterAdvance(b) == IF b THEN "extract" ELSE "finally"

\* faulty variant of Extend: the page's list replaces the accumulated one
ExtendReplace(outlets, on_page) == on_page

\* line 375
Extend(outlets, on_page) == outlets \o on_page

\* faulty variant of close_driver: the browser is left running
close_driver_skipped(b, d) == b

\* lines 94-97
close_driver(b, d) == IF d # 0 THEN [b EXCEPT ![d] = @ + 1] ELSE b

\* faulty variant of ReturnValue: the list is returned although an exception is in flight
ReturnValueSwallowed(p, outlets) == Some(outlets)

\* lines 393-400: re-raise, or return all_outlets
ReturnValue(p, outlets) == IF p # "none" THEN None ELSE Some(outlets)

-----------------------------------------------------------------------------
(* scrape_outlets *)

SearchTerms == { "", "Ampang" }

\* the variables of what surrounds one scrape_outlets call
store_vars == << job, clock, others >>

system_vars == << calls, chromes, requests, is_connected, unique_index, collection,
                  store_vars >>

service_vars == << requests, is_connected, unique_index, collection, store_vars >>

\* no scrape_and_store_outlets or rescrape_all_outlets call
IdleJob ==
    [kind |-> "none", pc |-> "idle", terms |-> << >>, t |-> 0,
     search_term |-> "", overwrite_existing |-> FALSE, scraped |-> << >>, i |-> 0,
     outlet_create |-> << >>, existing_outlet |-> << >>, outlets_saved |-> 0,
     result |-> << >>, touched |-> 0, log |-> << >>, failed |-> { },
     mirror |-> << >>]

StoreIdle ==
    /\ job = IdleJob
    /\ clock = 0
    /\ others = { }

\* no surrounding activity
SystemIdle ==
    /\ calls = << >>
    /\ chromes = << >>
    /\ requests = << >>
    /\ is_connected = FALSE
    /\ unique_index = FALSE
    /\ collection = << >>
    /\ StoreIdle

Init ==
    /\ SystemIdle
    /\ pc = "setup"
    /\ search_term \in SearchTerms
    \* a fresh instance, or one that already served a call
    /\ \/ driver = 0 /\ wait = 0 /\ browsers = << >>
       \/ driver = 1 /\ wait = 1 /\ browsers = << 1 >>
    /\ dom = BlankPage
    /\ all_outlets = << >>
    /\ page_number = 0
    /\ pending = "none"
    /\ outcome = "none"
    /\ result = None
    /\ opened = 0
    /\ shown = << >>
    /\ initial_page = "none"
    /\ failed_at = "none"
    /\ has_next_ret = "none"
    /\ advance_ret = "none"
    /\ trail = "none"
    /\ card = None
    \* no card of CardPool carries a tag: the order plays no part in the walk
    /\ set_order = CHOOSE o \in SetOrders : TRUE
    /\ outlet_data = None

extraction_vars == << card, outlet_data, set_order >>

\* an exception leaves the try block of scrape_outlets
Raise(kind, step) ==
    /\ pending' = kind
    /\ failed_at' = step
    /\ pc' = "finally"

\* faulty variant of NavigateBy: the search form is driven for every term
NavigateBySearchAlways(term) == "search"

\* lines 361-366: if search_term: self._perform_search(search_term), else the
\* base URL is loaded
NavigateBy(term) == IF term # "" THEN "search" ELSE "base_url"

\* lines 50-55: TRUE when the check passes, FALSE when it raises RuntimeError
ensure_driver_ready(d, w) == d # 0 /\ w # 0

\* lines 57-92
setup_driver ==
    /\ pc = "setup"
    /\ \/ \* no browser comes up: ChromeDriver missing, Chrome fails to start
          /\ Raise("Exception", "setup")
          /\ trail' = "open_failed"
          /\ UNCHANGED << driver, wait, browsers, opened >>
       \/ \* line 87 launched the browser, line 88 raises
          /\ browsers' = Append(browsers, 0)
          /\ driver' = Len(browsers) + 1
          /\ opened' = Len(browsers) + 1
          /\ Raise("WebDriverException", "setup")
          /\ trail' = "open"
          /\ UNCHANGED wait
       \/ /\ browsers' = Append(browsers, 0)
          /\ driver' = Len(browsers) + 1
          /\ wait' = Len(browsers) + 1
          /\ opened' = Len(browsers) + 1
          /\ pc' = "navigate"
          /\ trail' = "open"
          /\ UNCHANGED << pending, failed_at >>
    /\ UNCHANGED << search_term, dom, all_outlets, page_number, outcome, result,
                    shown, initial_page, has_next_ret, advance_ret, extraction_vars, system_vars >>

\* lines 99-140, called at line 362
perform_search ==
    /\ pc = "navigate"
    /\ NavigateBy(search_term) = "search"
    /\ trail' = "search"
    /\ IF ~ ensure_driver_ready(driver, wait)
       THEN /\ Raise("RuntimeError", "search")
            /\ UNCHANGED << dom, page_number, initial_page >>
       ELSE \/ \* line 110: driver.get raises, the site is unreachable
               /\ Raise("WebDriverException", "search")
               /\ initial_page' = "unreachable"
               /\ UNCHANGED << dom, page_number >>
            \/ \* lines 116, 127: the input or the button is not located in time
               /\ Raise("TimeoutException", "search")
               /\ initial_page' = "no_controls"
               /\ dom' \in { BrokenPage, NoListingPage }
               /\ UNCHANGED page_number
            \/ \* lines 123-132: clear, send_keys or click raises on the page of line 110
               /\ Raise("WebDriverException", "search")
               /\ initial_page' = "listing"
               /\ dom' = Page("listing", << >>, << >>)
               /\ UNCHANGED page_number
            \/ \* the search went through: the browser shows its result page
               /\ dom' \in Loadable
               /\ initial_page' = dom'.kind
               /\ page_number' = 1
               /\ pc' = "extract"
               /\ UNCHANGED << pending, failed_at >>
    /\ UNCHANGED << search_term, driver, wait, browsers, all_outlets, outcome, result,
                    opened, shown, has_next_ret, advance_ret, extraction_vars, system_vars >>

\* lines 364-365
open_base_url ==
    /\ pc = "navigate"
    /\ NavigateBy(search_term) = "base_url"
    /\ trail' = "base_url"
    /\ \/ /\ Raise("WebDriverException", "navigate")
          /\ initial_page' = "unreachable"
          /\ UNCHANGED << dom, page_number >>
       \/ /\ dom' \in Loadable
          /\ initial_page' = dom'.kind
          /\ page_number' = 1
          /\ pc' = "extract"
          /\ UNCHANGED << pending, failed_at >>
    /\ UNCHANGED << search_term, driver, wait, browsers, all_outlets, outcome, result,
                    opened, shown, has_next_ret, advance_ret, extraction_vars, system_vars >>

\* lines 374-375
extract_page ==
    /\ pc = "extract"
    /\ trail' = "extract"
    /\ IF ~ ensure_driver_ready(driver, wait)
       THEN /\ Raise("RuntimeError", "extract")
            /\ UNCHANGED << all_outlets, shown >>
       ELSE \/ \* the wait itself fails (browser gone), no TimeoutException
               /\ Raise("WebDriverException", "extract")
               /\ UNCHANGED << all_outlets, shown >>
            \/ LET r == get_all_outlets_on_page(dom.cards) IN
               /\ shown' = shown \o dom.cards
               /\ IF r.raised # "none"
                  THEN /\ Raise(r.raised, "extract")
                       /\ UNCHANGED all_outlets
                  ELSE /\ all_outlets' = Extend(all_outlets, r.outlets)
                       /\ pc' = "has_next"
                       /\ UNCHANGED << pending, failed_at >>
    /\ UNCHANGED << search_term, driver, wait, browsers, dom, page_number, outcome,
                    result, opened, initial_page, has_next_ret, advance_ret,
                    extraction_vars, system_vars >>

\* lines 380-382
check_next ==
    /\ pc = "has_next"
    /\ trail' = "has_next"
    /\ \/ /\ Raise("WebDriverException", "has_next")
          /\ has_next_ret' = "raised"
       \/ /\ has_next_ret' = IF has_next_page(dom.controls) THEN "true" ELSE "false"
          /\ pc' = AfterHasNext(has_next_page(dom.controls))
          /\ UNCHANGED << pending, failed_at >>
    /\ advance_ret' = "none"
    /\ UNCHANGED << search_term, driver, wait, browsers, dom, all_outlets, page_number,
                    outcome, result, opened, shown, initial_page, extraction_vars, system_vars >>

\* the page re-renders its pagination between the check and the click
dom_change ==
    /\ pc = "go_next"
    /\ dom' \in { Page(dom.kind, dom.cards, ct) : ct \in ControlLists \ { dom.controls } }
    /\ UNCHANGED << pc, search_term, driver, wait, browsers, all_outlets, page_number,
                    pending, outcome, result, opened, shown, initial_page, failed_at,
                    has_next_ret, advance_ret, trail, extraction_vars, system_vars >>

\* lines 385-389
advance ==
    /\ pc = "go_next"
    /\ trail' = "advance"
    /\ \/ \* find_element, is_enabled or click raises something else than NoSuchElementException
          /\ Raise("WebDriverException", "advance")
          /\ advance_ret' = "raised"
          /\ UNCHANGED << dom, page_number >>
       \/ /\ go_to_next_page(dom.controls)
          /\ advance_ret' = "true"
          /\ dom' \in Loadable
          /\ pc' = AfterAdvance(TRUE)
          /\ page_number' = IF page_number < MaxPageNumber THEN page_number + 1
                            ELSE page_number
          /\ UNCHANGED << pending, failed_at >>
       \/ /\ ~ go_to_next_page(dom.controls)
          /\ advance_ret' = "false"
          /\ pc' = AfterAdvance(FALSE)
          /\ UNCHANGED << dom, page_number, pending, failed_at >>
    /\ UNCHANGED << search_term, driver, wait, browsers, all_outlets, outcome, result,
                    opened, shown, initial_page, has_next_ret, extraction_vars, system_vars >>

\* lines 393-400: finally, then re-raise or return
finish ==
    /\ pc = "finally"
    /\ trail' = "close"
    /\ browsers' = close_driver(browsers, driver)
    /\ outcome' = IF pending # "none" THEN "raised" ELSE "returned"
    /\ result' = ReturnValue(pending, all_outlets)
    /\ pc' = "done"
    /\ UNCHANGED << search_term, driver, wait, dom, all_outlets, page_number, pending,
                    opened, shown, initial_page, failed_at, has_next_ret, advance_ret,
                    extraction_vars, system_vars >>

Step ==
    \/ setup_driver
    \/ perform_search
    \/ open_base_url
    \/ extract_page
    \/ check_next
    \/ advance
    \/ finish

Next == Step \/ dom_change

Spec == Init /\ [][Next]_vars

\* the call is sequential and every wait of it is bounded (10 s element waits,
\* 3 s settle delays): a step that can be taken is taken
FairSpec == Spec /\ WF_vars(Step)

-----------------------------------------------------------------------------
(* _extract_outlet_info on its own: one card in, one record out *)

NameNodes == { None, Some(<< WS >>), Some(<< WS, "M", WS >>) }

AddressNodes == { << >>, << << "J", WS >>, Text("T") >> }

GeoValues == { None, Some(JNum(0)), Some(JNum(3)), Some(JStr("3.0")), Some(JStr("x")) }

ScriptPool == { ScriptMalformed, ScriptNoGeo }
                  \cup { ScriptGeo(a, b) : a \in GeoValues, b \in GeoValues }

\* the card the other fields of which are varied one at a time
CardPlain == Card("none", Some(Text("M")), << Text("J") >>, << >>)

\* visible texts of ".ed-tooltiptext" nodes as WebElement.text returns them
\* (trimmed, "" for a node that is not displayed)
TooltipTexts ==
    { << >>, Chars("Open daily"), Chars("9am-10pm Hours"), Chars("7AM\n11PM") }

HoursCards ==
    { [CardPlain EXCEPT !.tooltips = t] : t \in SeqsUpTo(TooltipTexts, MaxTooltips) }

\* texts of the ".addressText" nodes that follow the address
ContactTexts == { Chars("KL"), Chars("Tel: 1"), Chars("Fax: 2"), Chars("Phone: 3") }

\* href values of anchors of the card
Hrefs == { Chars("tel:03"), Chars("tel: 04"), Chars("x/tel:5"), Chars("/map") }

TelephoneCards ==
    { [CardPlain EXCEPT !.addressText = << Text("J") >> \o t, !.anchors = a] :
        t \in SeqsUpTo(ContactTexts, MaxContactTexts), a \in SeqsUpTo(Hrefs, MaxAnchors) }

\* the tooltip anchors of an addressTop
TagAnchors ==
    { TagAnchor("missing", << >>), TagAnchor("stale", << >>) }
        \cup { TagAnchor("text", content) : content \in TagContents }

AttributeCards ==
    { [CardPlain EXCEPT !.addressTop = Some(a)] : a \in SeqsUpTo(TagAnchors, MaxTagAnchors) }

\* a card with every field present
CardRich ==
    [Card("none", Some(Text("M")), << Text("J"), Chars("Tel: 1") >>,
          << ScriptGeo(Some(JNum(3)), Some(JStr("3.0"))) >>)
        EXCEPT !.tooltips = << Chars("9am-10pm Hours") >>,
               !.anchors = << Chars("tel:03") >>,
               !.addressTop = Some(<< TagAnchor("text", Chars("WiFi\nfree")) >>)]

\* the cards that fail on one field
FaultCards ==
    { [c EXCEPT !.fault = f] : c \in { CardRich, CardPlain }, f \in FieldFaults \cup { "none" } }

\* the cards that vary in name and address
NameCards == { Card("none", n, a, << >>) : n \in NameNodes, a \in AddressNodes }

\* the cards that vary in their JSON-LD script nodes
GeoCards ==
    { Card("none", Some(Text("M")), << Text("J") >>, sc) :
        sc \in SeqsUpTo(ScriptPool, MaxScripts) }

ExtractCards ==
    NameCards
        \cup GeoCards
        \cup { CardStale }
        \cup HoursCards
        \cup TelephoneCards
        \cup AttributeCards
        \cup FaultCards

InitExtract ==
    /\ SystemIdle
    /\ pc = "card"
    /\ card \in { Some(c) : c \in ExtractCards }
    /\ set_order \in SetOrders
    /\ outlet_data = None
    /\ search_term = ""
    /\ driver = 0 /\ wait = 0 /\ browsers = << >>
    /\ dom = BlankPage
    /\ all_outlets = << >>
    /\ page_number = 0
    /\ pending = "none"
    /\ outcome = "none"
    /\ result = None
    /\ opened = 0
    /\ shown = << >>
    /\ initial_page = "none"
    /\ failed_at = "none"
    /\ has_next_ret = "none"
    /\ advance_ret = "none"
    /\ trail = "none"

\* line 304: outlet_data = self._extract_outlet_info(outlet_element)
extract_card ==
    /\ pc = "card"
    /\ LET r == extract_outlet_info(card[1]) IN
       /\ outlet_data' = r.data
       /\ pending' = r.raised
       /\ pc' = IF r.raised = "none" THEN "record" ELSE "card_raised"
    /\ UNCHANGED << search_term, driver, wait, browsers, dom, all_outlets, page_number,
                    outcome, result, opened, shown, initial_page, failed_at,
                    has_next_ret, advance_ret, trail, card, set_order, system_vars >>

NextExtract == extract_card

SpecExtract == InitExtract /\ [][NextExtract]_vars

-----------------------------------------------------------------------------
(* Concurrent calls of scrape_mcdonalds_outlets.  Every call builds its own   *)
(* McDonaldsOutletScraper (utils.py line 37) and its own webdriver.Chrome     *)
(* (line 87); every Chrome is started with --remote-debugging-port=9222       *)
(* (line 67), the port through which its driver talks to it.                  *)

CallIds == 1..NumCalls

\* a call before scrape_mcdonalds_outlets is entered
IdleCall == [pc |-> "idle", driver |-> 0, launched |-> 0, turns |-> 0, outcome |-> "none"]

\* a Chrome process: the call whose driver started it, whether it got the
\* debugging port, whether it runs, and (history) the calls whose steps acted on
\* it and the calls whose quit() ended it
Chrome(c, devtools, running) ==
    [launched_by |-> c, devtools |-> devtools, running |-> running,
     used_by |-> { }, quit_by |-> { }]

\* the running Chrome processes that listen on the debugging port
PortHolders == { k \in DOMAIN chromes : chromes[k].running /\ chromes[k].devtools }

InitConcurrent ==
    /\ calls = [c \in CallIds |-> IdleCall]
    /\ chromes = << >>
    /\ requests = << >>
    /\ is_connected = FALSE
    /\ unique_index = FALSE
    /\ collection = << >>
    /\ StoreIdle
    /\ pc = "unused"
    /\ search_term = ""
    /\ driver = 0 /\ wait = 0 /\ browsers = << >>
    /\ dom = BlankPage
    /\ all_outlets = << >>
    /\ page_number = 0
    /\ pending = "none"
    /\ outcome = "none"
    /\ result = None
    /\ opened = 0
    /\ shown = << >>
    /\ initial_page = "none"
    /\ failed_at = "none"
    /\ has_next_ret = "none"
    /\ advance_ret = "none"
    /\ trail = "none"
    /\ card = None
    /\ outlet_data = None
    /\ set_order = CHOOSE o \in SetOrders : TRUE

scrape_vars == << pc, search_term, driver, wait, browsers, dom, all_outlets, page_number,
                  pending, outcome, result, opened, shown, initial_page, failed_at,
                  has_next_ret, advance_ret, trail >>

\* utils.py lines 37-40: scraper = McDonaldsOutletScraper(headless=True);
\* scraper.scrape_outlets(search_term)
call_scrape(c) ==
    /\ calls[c].pc = "idle"
    /\ calls' = [calls EXCEPT ![c].pc = "setup"]
    /\ UNCHANGED << chromes, scrape_vars, extraction_vars, service_vars >>

\* lines 57-89.  The first Chrome gets the port.  A Chrome started while the
\* port is taken cannot listen on it: the session is not created and line 87
\* raises, or the driver finds the port answering and drives the Chrome that
\* holds it.
launch_chrome(c) ==
    /\ calls[c].pc = "setup"
    /\ LET k == Len(chromes) + 1 IN
       IF PortHolders = { }
       THEN /\ chromes' = Append(chromes, [Chrome(c, TRUE, TRUE) EXCEPT !.used_by = { c }])
            /\ calls' = [calls EXCEPT ![c].pc = "navigate", ![c].driver = k,
                                      ![c].launched = k]
       ELSE \/ /\ chromes' = Append(chromes, Chrome(c, FALSE, FALSE))
               /\ calls' = [calls EXCEPT ![c].pc = "close", ![c].outcome = "raised"]
            \/ \E h \in PortHolders :
                 /\ chromes' = Append([chromes EXCEPT ![h].used_by = @ \cup { c }],
                                      Chrome(c, FALSE, TRUE))
                 /\ calls' = [calls EXCEPT ![c].pc = "navigate", ![c].driver = h,
                                           ![c].launched = k]
    /\ UNCHANGED << scrape_vars, extraction_vars, service_vars >>

\* the step after a step of lines 357-390 that went well
StepAfter(call) ==
    CASE call.pc = "navigate" -> "search"
      [] call.pc = "search" -> "extract"
      [] call.pc = "extract" -> IF call.turns < MaxTurns THEN "advance" ELSE "close"
      [] call.pc = "advance" -> "extract"

\* lines 357-390: a navigate, search, extract or advance step acts on the
\* browser self.driver drives; it raises when that browser is gone, and may
\* raise anyway
browser_step(c) ==
    /\ calls[c].pc \in { "navigate", "search", "extract", "advance" }
    /\ LET b == calls[c].driver IN
       \/ /\ chromes[b].running
          /\ chromes' = [chromes EXCEPT ![b].used_by = @ \cup { c }]
          /\ calls' = [calls EXCEPT ![c].pc = StepAfter(calls[c]),
                                    ![c].turns = IF calls[c].pc = "advance"
                                                 THEN @ + 1 ELSE @]
       \/ /\ chromes' = chromes
          /\ calls' = [calls EXCEPT ![c].pc = "close", ![c].outcome = "raised"]
    /\ UNCHANGED << scrape_vars, extraction_vars, service_vars >>

\* extract finds no next page
last_page(c) ==
    /\ calls[c].pc = "extract"
    /\ chromes[calls[c].driver].running
    /\ calls' = [calls EXCEPT ![c].pc = "close"]
    /\ UNCHANGED << chromes, scrape_vars, extraction_vars, service_vars >>

\* lines 94-97 and 397-400: self.driver.quit() ends the Chrome this driver
\* started and tells the browser it drives to close; a browser of another
\* call may or may not obey before that call's next step
close_session(c) ==
    /\ calls[c].pc = "close"
    /\ LET b == calls[c].driver
           own == calls[c].launched
       IN  IF b = 0
           THEN chromes' = chromes
           ELSE LET ended == [chromes EXCEPT ![own].running = FALSE,
                                             ![own].quit_by = @ \cup { c }]
                IN  \/ chromes' = [ended EXCEPT ![b].running = FALSE,
                                                ![b].quit_by = @ \cup { c }]
                    \/ b # own /\ chromes' = ended
    /\ calls' = [calls EXCEPT ![c].pc = "done",
                              ![c].outcome = IF @ = "none" THEN "returned" ELSE @]
    /\ UNCHANGED << scrape_vars, extraction_vars, service_vars >>

NextConcurrent ==
    \E c \in CallIds :
        \/ call_scrape(c)
        \/ launch_chrome(c)
        \/ browser_step(c)
        \/ last_page(c)
        \/ close_session(c)

SpecConcurrent == InitConcurrent /\ [][NextConcurrent]_vars

-----------------------------------------------------------------------------
(* The API and the service: POST /scrape-outlets, POST /save-outlets,         *)
(* OutletService.scrape_and_store_outlets and _store_outlets over the         *)
(* outlets collection.  Handlers are coroutines of one event loop: a step     *)
(* runs from one await to the next, and scrape_mcdonalds_outlets, which is    *)
(* not awaited, runs inside the step that calls it.                           *)

RequestIds == 1..NumRequests

\* the one GET /outlets request
ReaderId == 0

ClientIds == { ReaderId } \cup RequestIds

\* scraped records, by the two fields the store keys on
Outlet(name, address) == [name |-> name, address |-> address]

OutletPool == { Outlet("M", "J"), Outlet("M", "") }

\* what scrape_mcdonalds_outlets hands back: None when it raises, else the list
ScrapeOutcomes == { None } \cup { Some(l) : l \in SeqsUpTo(OutletPool, MaxBatch) }

\* a request: the position of its handler, the locals of the handler while it
\* runs, and (history) its endpoint, how its scrape ended and its answer
IdleRequest ==
    [pc |-> "idle", overwrite_existing |-> FALSE, scraped |-> None,
     i |-> 0, existing |-> 0, outlets_saved |-> 0,
     endpoint |-> "none", scrape |-> "none", response |-> None]

\* how a scrape ended
ScrapeKind(outlets) ==
    IF outlets = None THEN "raised"
    ELSE IF outlets[1] = << >> THEN "empty"
    ELSE "outlets"

\* a request whose handler has answered
Answered(endpoint, kind, response) ==
    [IdleRequest EXCEPT !.pc = "done", !.endpoint = endpoint, !.scrape = kind,
                        !.response = response]

\* an HTTP answer: status code, and for a 200 the success flag and the counts
Response(status, success, total, saved) ==
    Some([status |-> status, success |-> success, total |-> total, saved |-> saved])

InitService ==
    /\ requests = [r \in ClientIds |-> IdleRequest]
    /\ is_connected = FALSE
    /\ unique_index = FALSE
    /\ collection = << >>
    /\ StoreIdle
    /\ calls = << >>
    /\ chromes = << >>
    /\ pc = "unused"
    /\ search_term = ""
    /\ driver = 0 /\ wait = 0 /\ browsers = << >>
    /\ dom = BlankPage
    /\ all_outlets = << >>
    /\ page_number = 0
    /\ pending = "none"
    /\ outcome = "none"
    /\ result = None
    /\ opened = 0
    /\ shown = << >>
    /\ initial_page = "none"
    /\ failed_at = "none"
    /\ has_next_ret = "none"
    /\ advance_ret = "none"
    /\ trail = "none"
    /\ card = None
    /\ outlet_data = None
    /\ set_order = CHOOSE o \in SetOrders : TRUE

rest_vars == << scrape_vars, extraction_vars, calls, chromes, store_vars >>

\* POST requests are taken in the order of their ids
Arrived(r) == IF r = 1 THEN TRUE ELSE requests[r - 1].pc # "idle"

\* mcdonalds_api.py lines 172-199 and outlet_service.py lines 268-292: the
\* handler of GET /outlets, which opens the collection and reads it; its body
\* is not modelled
get_outlets_api ==
    /\ requests[ReaderId].pc = "idle"
    /\ requests' = [requests EXCEPT ![ReaderId] =
                      IF is_connected
                      THEN Answered("/outlets", "none", Response(200, TRUE, 0, 0))
                      ELSE [@ EXCEPT !.pc = "connect", !.endpoint = "/outlets"]]
    /\ UNCHANGED << is_connected, unique_index, collection, rest_vars >>

\* mcdonalds_api.py lines 71-111: the handler of POST /scrape-outlets
scrape_outlets_api(r) ==
    /\ requests[r].pc = "idle" /\ Arrived(r)
    /\ \E outlets \in ScrapeOutcomes :
         requests' = [requests EXCEPT ![r] =
                        Answered("/scrape-outlets", ScrapeKind(outlets),
                                 IF outlets = None
                                 THEN Response(500, FALSE, 0, 0)
                                 ELSE IF outlets[1] = << >>
                                 THEN Response(200, FALSE, 0, 0)
                                 ELSE Response(200, TRUE, Len(outlets[1]), 0))]
    /\ UNCHANGED << is_connected, unique_index, collection, rest_vars >>

\* outlet_service.py lines 113-117: the next outlet from index i on that has a
\* name and an address, Len + 1 when there is none
RECURSIVE NextStorable(_, _)
NextStorable(outlets, i) ==
    IF i > Len(outlets) THEN i
    ELSE IF outlets[i].name = "" \/ outlets[i].address = ""
    THEN NextStorable(outlets, i + 1)
    ELSE i

\* outlet_service.py lines 75-81 and mcdonalds_api.py line 136: the answer of
\* a scrape_and_store_outlets call that stored its outlets
Stored(req, saved) == Response(200, TRUE, Len(req.scraped[1]), saved)

\* outlet_service.py lines 83-91 and mcdonalds_api.py line 136: the answer of a
\* scrape_and_store_outlets call that caught an exception
Caught == Response(200, FALSE, 0, 0)

\* the request after the loop of _store_outlets has moved on to outlet i
ContinueAt(req, i, saved) ==
    LET j == NextStorable(req.scraped[1], i) IN
    IF j > Len(req.scraped[1])
    THEN Answered(req.endpoint, req.scrape, Stored(req, saved))
    ELSE [req EXCEPT !.pc = "find_one", !.i = j, !.existing = 0, !.outlets_saved = saved]

\* mcdonalds_api.py lines 117-143 and outlet_service.py lines 51-110: the
\* handler of POST /save-outlets up to its first await
save_outlets_api(r) ==
    /\ requests[r].pc = "idle" /\ Arrived(r)
    /\ \E outlets \in ScrapeOutcomes, overwrite \in BOOLEAN :
         LET req == [requests[r] EXCEPT !.endpoint = "/save-outlets",
                                        !.scrape = ScrapeKind(outlets),
                                        !.overwrite_existing = overwrite,
                                        !.scraped = outlets]
         IN  requests' = [requests EXCEPT ![r] =
                 IF outlets = None
                 THEN Answered(req.endpoint, req.scrape, Caught)
                 ELSE IF outlets[1] = << >>
                 THEN Answered(req.endpoint, req.scrape, Response(200, FALSE, 0, 0))
                 ELSE IF is_connected
                 THEN ContinueAt(req, 1, 0)
                 ELSE [req EXCEPT !.pc = "connect"]]
    /\ UNCHANGED << is_connected, unique_index, collection, rest_vars >>

\* connection.py lines 63-88: the ping has answered
connect(r) ==
    /\ requests[r].pc = "connect"
    /\ is_connected' = TRUE
    /\ requests' = [requests EXCEPT ![r].pc = "create_indexes"]
    /\ UNCHANGED << unique_index, collection, rest_vars >>

\* two documents of the collection with the same name and address
HasDuplicates(docs) ==
    \E a, b \in DOMAIN docs :
        a # b /\ docs[a].name = docs[b].name /\ docs[a].address = docs[b].address

\* connection.py lines 124-143: the server builds the unique index, which it
\* refuses when the collection holds duplicates; the exception ends the call
create_indexes(r) ==
    /\ requests[r].pc = "create_indexes"
    /\ IF HasDuplicates(collection)
       THEN /\ requests' = [requests EXCEPT ![r] =
                              IF r = ReaderId
                              THEN Answered("/outlets", "none", Response(500, FALSE, 0, 0))
                              ELSE Answered(@.endpoint, @.scrape, Caught)]
            /\ UNCHANGED unique_index
       ELSE /\ requests' = [requests EXCEPT ![r] =
                              IF r = ReaderId
                              THEN Answered("/outlets", "none", Response(200, TRUE, 0, 0))
                              ELSE ContinueAt(@, 1, 0)]
            /\ unique_index' = TRUE
    /\ UNCHANGED << is_connected, collection, rest_vars >>

\* the first document with this name and address, 0 when there is none
FindOne(docs, outlet) ==
    LET hits == { k \in DOMAIN docs :
                    docs[k].name = outlet.name /\ docs[k].address = outlet.address }
    IN  IF hits = { } THEN 0 ELSE CHOOSE k \in hits : \A h \in hits : k <= h

\* outlet_service.py lines 147-174: find_one has answered; an existing outlet
\* is skipped when overwrite_existing is false
find_one(r) ==
    /\ requests[r].pc = "find_one"
    /\ LET req == requests[r]
           existing_outlet == FindOne(collection, req.scraped[1][req.i])
       IN  requests' = [requests EXCEPT ![r] =
               IF existing_outlet # 0 /\ ~ req.overwrite_existing
               THEN ContinueAt(req, req.i + 1, req.outlets_saved)
               ELSE [req EXCEPT !.pc = "write", !.existing = existing_outlet]]
    /\ UNCHANGED << is_connected, unique_index, collection, rest_vars >>

\* outlet_service.py lines 152-191: update_one or insert_one has answered; the
\* server refuses an insert that the unique index forbids (DuplicateKeyError)
write_outlet(r) ==
    /\ requests[r].pc = "write"
    /\ LET req == requests[r]
           outlet == req.scraped[1][req.i]
       IN  IF req.existing # 0
           THEN /\ collection' = collection
                /\ requests' = [requests EXCEPT ![r] =
                                  ContinueAt(req, req.i + 1, req.outlets_saved + 1)]
           ELSE IF unique_index /\ FindOne(collection, outlet) # 0
           THEN /\ collection' = collection
                /\ requests' = [requests EXCEPT ![r] =
                                  ContinueAt(req, req.i + 1, req.outlets_saved)]
           ELSE /\ collection' = Append(collection,
                                        [name |-> outlet.name, address |-> outlet.address])
                /\ requests' = [requests EXCEPT ![r] =
                                  ContinueAt(req, req.i + 1, req.outlets_saved + 1)]
    /\ UNCHANGED << is_connected, unique_index, rest_vars >>

NextService ==
    \/ get_outlets_api
    \/ \E r \in RequestIds : scrape_outlets_api(r)
    \/ \E r \in RequestIds : save_outlets_api(r)
    \/ \E r \in ClientIds : connect(r)
    \/ \E r \in ClientIds : create_indexes(r)
    \/ \E r \in RequestIds : find_one(r)
    \/ \E r \in RequestIds : write_outlet(r)

SpecService == InitService /\ [][NextService]_vars

-----------------------------------------------------------------------------
(* OutletService.scrape_and_store_outlets, _store_outlets, delete_all_outlets, *)
(* get_all_search_terms and rescrape_all_outlets over the outlets collection:  *)
(* one call under way, and the database operations of two other requests, a    *)
(* DELETE /outlets and the insert of another POST /save-outlets, which the     *)
(* server executes between the awaits of the call.                             *)

StoreTerms == { "", "Ampang", "Bangsar" }

\* a record handed to _store_outlets: fault is what fails while it is stored,
\* v stands for the values of the scraped fields, which are copied as they are
ScrapedOutlet(fault, name, address, v) ==
    [fault |-> fault, name |-> name, address |-> address,
     operating_hours |-> v, waze_link |-> v, latitude |-> v, longitude |-> v,
     telephone |-> v, attribute |-> v]

OutletM == ScrapedOutlet("none", Text("M"), Text("J"), "fresh")
OutletN == ScrapedOutlet("none", Text("N"), Text("K"), "fresh")

GoodOutlets == { OutletM, OutletN }

\* records that are not stored: no name, no address, a name that validation
\* rejects, an embedding request that fails, a find_one that fails
DefectiveOutlets ==
    { ScrapedOutlet("none", << >>, Text("J"), "fresh"),
      ScrapedOutlet("none", Text("M"), << >>, "fresh"),
      ScrapedOutlet("none", << WS >>, Text("J"), "fresh"),
      ScrapedOutlet("embedding", Text("N"), Text("K"), "fresh"),
      ScrapedOutlet("database", Text("N"), Text("K"), "fresh") }

InsertAt(l, p, x) == SubSeq(l, 1, p - 1) \o << x >> \o SubSeq(l, p, Len(l))

\* the lists of at most n records with at most one defective record
ScrapeLists(n) ==
    SeqsUpTo(GoodOutlets, n)
        \cup UNION { { InsertAt(l, p, d) : p \in 1..(Len(l) + 1), d \in DefectiveOutlets } :
                        l \in SeqsUpTo(GoodOutlets, n - 1) }

\* what scrape_mcdonalds_outlets hands back: None when it raises, else the list
StoreOutcomes == { None } \cup { Some(l) : l \in ScrapeLists(MaxOutlets) }

\* vector_service.py lines 35-57: the embedding is a function of the text of
\* outlet_service.py lines 120-125
generate_embedding(o) == << o.name, o.address, o.operating_hours, o.attribute >>

\* models/outlet.py lines 37-72: the validators of name and address
ValidOutlet(o) == Strip(o.name) # << >> /\ Strip(o.address) # << >>

\* outlet_service.py lines 132-144
OutletCreate(o, term, now) ==
    [name |-> Strip(o.name), address |-> Strip(o.address),
     operating_hours |-> o.operating_hours, waze_link |-> o.waze_link,
     latitude |-> o.latitude, longitude |-> o.longitude,
     telephone |-> o.telephone, attribute |-> o.attribute,
     embedding |-> generate_embedding(o), search_term |-> term, scraped_at |-> now]

\* outlet_service.py lines 177-182: the document insert_one stores
NewDocument(oc, id, now) ==
    [id |-> id, name |-> oc.name, address |-> oc.address,
     operating_hours |-> oc.operating_hours, waze_link |-> oc.waze_link,
     latitude |-> oc.latitude, longitude |-> oc.longitude,
     telephone |-> oc.telephone, attribute |-> oc.attribute,
     embedding |-> oc.embedding, search_term |-> oc.search_term,
     scraped_at |-> oc.scraped_at, created_at |-> now, updated_at |-> now]

\* faulty variant of UpdateOne: the document is replaced as a whole
UpdateOneReplaces(doc, oc, now) == NewDocument(oc, doc.id, now)

\* outlet_service.py lines 155-171: the $set of update_one
UpdateOne(doc, oc, now) ==
    [doc EXCEPT !.operating_hours = oc.operating_hours, !.waze_link = oc.waze_link,
                !.latitude = oc.latitude, !.longitude = oc.longitude,
                !.telephone = oc.telephone, !.attribute = oc.attribute,
                !.embedding = oc.embedding, !.search_term = oc.search_term,
                !.scraped_at = oc.scraped_at, !.updated_at = now]

\* faulty variant of AfterStoreFailure: an exception ends the loop
StoreFailureEndsLoop(n, i) == n + 1

\* outlet_service.py lines 186-191: both handlers continue with the next record
AfterStoreFailure(n, i) == i + 1

\* outlet_service.py lines 113-144: the next record from index i on that gets
\* as far as find_one, Len + 1 when there is none
RECURSIVE NextToFind(_, _)
NextToFind(outlets, i) ==
    IF i > Len(outlets) THEN i
    ELSE IF outlets[i].name = << >> \/ outlets[i].address = << >>
    THEN NextToFind(outlets, i + 1)
    ELSE IF outlets[i].fault = "embedding" \/ ~ ValidOutlet(outlets[i])
    THEN NextToFind(outlets, AfterStoreFailure(Len(outlets), i))
    ELSE i

\* the dict scrape_and_store_outlets returns
Result(success, scraped, saved) ==
    Some([success |-> success, outlets_scraped |-> scraped, outlets_saved |-> saved])

\* scrape_and_store_outlets has returned res; lines 458-463 go on with the
\* next term whatever it was
EndCall(j, res) ==
    LET j2 == [j EXCEPT !.result = res, !.i = 0, !.outlet_create = None,
                        !.existing_outlet = None,
                        !.failed = IF res[1].success THEN @ ELSE @ \cup { j.search_term }]
    IN  IF j.kind = "rescrape" /\ j.t < Len(j.terms)
        THEN [j2 EXCEPT !.pc = "scrape", !.t = j.t + 1]
        ELSE [j2 EXCEPT !.pc = "done"]

\* the loop of _store_outlets moves on to record i
ContinueStore(j, i, saved, touched, now) ==
    LET k == NextToFind(j.scraped, i)
        j2 == [j EXCEPT !.outlets_saved = saved, !.touched = touched]
    IN  IF k > Len(j.scraped)
        THEN EndCall(j2, Result(TRUE, Len(j.scraped), saved))
        ELSE [j2 EXCEPT !.pc = "find_one", !.i = k,
                        !.outlet_create = Some(OutletCreate(j.scraped[k], j.search_term, now)),
                        !.existing_outlet = None]

\* outlet_service.py lines 51-110: scrape_and_store_outlets up to its first await
ScrapeAndStore(j, term, overwrite, outlets, now) ==
    LET j1 == [j EXCEPT !.search_term = term, !.overwrite_existing = overwrite,
                        !.scraped = IF outlets = None THEN << >> ELSE outlets[1],
                        !.outlets_saved = 0, !.touched = 0, !.result = None,
                        !.log = Append(@, term)]
    IN  IF outlets = None \/ outlets = Some(<< >>)
        THEN EndCall(j1, Result(FALSE, 0, 0))
        ELSE ContinueStore(j1, 1, 0, 0, now)

\* name, address and search_term of each document
KeyTerms(docs) ==
    [k \in DOMAIN docs |-> [name |-> docs[k].name, address |-> docs[k].address,
                            search_term |-> docs[k].search_term]]

\* what storing oc with overwrite_existing=True does to name, address and
\* search_term of the documents
MirrorStore(m, oc) ==
    IF FindOne(m, oc) # 0
    THEN [m EXCEPT ![FindOne(m, oc)].search_term = oc.search_term]
    ELSE Append(m, [name |-> oc.name, address |-> oc.address,
                    search_term |-> oc.search_term])

\* documents as earlier calls stored them
StoredM(term, k) == NewDocument(OutletCreate(ScrapedOutlet("none", Text("M"), Text("J"), "stale"), term, k), k, k)
StoredN(term, k) == NewDocument(OutletCreate(ScrapedOutlet("none", Text("N"), Text("K"), "stale"), term, k), k, k)

InitialCollections ==
    { << >>,
      << StoredM("", 1) >>,
      << StoredM("Ampang", 1) >>,
      << StoredM("Ampang", 1), StoredN("Bangsar", 2) >> }

InitStore ==
    /\ job = IdleJob
    /\ collection \in InitialCollections
    /\ clock = Len(collection) + 1
    /\ others = { }
    /\ is_connected = TRUE
    /\ unique_index = TRUE
    /\ requests = << >>
    /\ calls = << >>
    /\ chromes = << >>
    /\ pc = "unused"
    /\ search_term = ""
    /\ driver = 0 /\ wait = 0 /\ browsers = << >>
    /\ dom = BlankPage
    /\ all_outlets = << >>
    /\ page_number = 0
    /\ pending = "none"
    /\ outcome = "none"
    /\ result = None
    /\ opened = 0
    /\ shown = << >>
    /\ initial_page = "none"
    /\ failed_at = "none"
    /\ has_next_ret = "none"
    /\ advance_ret = "none"
    /\ trail = "none"
    /\ card = None
    /\ outlet_data = None
    /\ set_order = CHOOSE o \in SetOrders : TRUE

store_rest == << scrape_vars, extraction_vars, calls, chromes, requests,
                 is_connected, unique_index >>

\* the call is between its first and its last await
InFlight == job.pc \notin { "idle", "done" }

\* outlet_service.py lines 36-110, called by POST /save-outlets
scrape_and_store_outlets(term, overwrite) ==
    /\ job.pc = "idle"
    /\ \E outlets \in StoreOutcomes :
         job' = ScrapeAndStore([job EXCEPT !.kind = "scrape_and_store"],
                               term, overwrite, outlets, clock)
    /\ UNCHANGED << collection, clock, others, store_rest >>

\* outlet_service.py lines 147-174: the server answers find_one; an existing
\* outlet is skipped when overwrite_existing is false
find_one_outlet ==
    /\ job.pc = "find_one"
    /\ LET oc == job.outlet_create[1]
           n == Len(job.scraped)
           existing_outlet == FindOne(collection, oc)
       IN  job' =
             IF job.scraped[job.i].fault = "database"
             THEN ContinueStore(job, AfterStoreFailure(n, job.i),
                                job.outlets_saved, job.touched, clock)
             ELSE IF existing_outlet # 0 /\ ~ job.overwrite_existing
             THEN ContinueStore([job EXCEPT !.mirror = MirrorStore(@, oc)], job.i + 1,
                                job.outlets_saved, job.touched, clock)
             ELSE [job EXCEPT !.pc = "write",
                              !.existing_outlet =
                                  IF existing_outlet = 0 THEN None
                                  ELSE Some(collection[existing_outlet])]
    /\ UNCHANGED << collection, clock, others, store_rest >>

\* outlet_service.py lines 152-187: the server answers update_one or
\* insert_one; it refuses an insert that the unique index forbids
write_document ==
    /\ job.pc = "write"
    /\ LET oc == job.outlet_create[1]
           n == Len(job.scraped)
           mirrored == [job EXCEPT !.mirror = MirrorStore(@, oc)]
       IN  IF job.existing_outlet # None
           THEN LET hit == { k \in DOMAIN collection :
                               collection[k].id = job.existing_outlet[1].id }
                IN  /\ collection' = [k \in DOMAIN collection |->
                                        IF k \in hit
                                        THEN UpdateOne(collection[k], oc, clock)
                                        ELSE collection[k]]
                    /\ clock' = clock + 1
                    /\ job' = ContinueStore(mirrored, job.i + 1, job.outlets_saved + 1,
                                            job.touched + (IF hit = { } THEN 0 ELSE 1),
                                            clock + 1)
           ELSE IF unique_index /\ FindOne(collection, oc) # 0
           THEN /\ job' = ContinueStore(job, AfterStoreFailure(n, job.i),
                                        job.outlets_saved, job.touched, clock)
                /\ UNCHANGED << collection, clock >>
           ELSE /\ collection' = Append(collection, NewDocument(oc, clock, clock))
                /\ clock' = clock + 1
                /\ job' = ContinueStore(mirrored, job.i + 1, job.outlets_saved + 1,
                                        job.touched + 1, clock + 1)
    /\ UNCHANGED << others, store_rest >>

\* the lists that hold each element of S once
Orders(S) ==
    { l \in SeqsUpTo(S, Cardinality(S)) :
        Len(l) = Cardinality(S) /\ \A x \in S : \E k \in DOMAIN l : l[k] = x }

\* faulty variant of RescrapeAfterRead: the delete is done whatever was read
RescrapeDeletesAlways(terms) == "delete_all"

\* outlet_service.py lines 447-450
RescrapeAfterRead(terms) == IF terms = << >> THEN "done" ELSE "delete_all"

\* outlet_service.py lines 422-436 and 438-450, started by POST /scrape/rescrape-all:
\* the server answers distinct("search_term"), in an order of its own; an
\* exception of it is answered with the empty list
get_all_search_terms ==
    /\ job.pc = "idle"
    /\ \E terms \in { << >> } \cup Orders({ collection[k].search_term :
                                            k \in DOMAIN collection } \ { "" }) :
         job' = [job EXCEPT !.kind = "rescrape", !.terms = terms,
                            !.log = << "get_all_search_terms" >>,
                            !.pc = RescrapeAfterRead(terms)]
    /\ UNCHANGED << collection, clock, others, store_rest >>

\* outlet_service.py lines 406-420, called at line 453: the server answers
\* delete_many; an exception of it is logged and the call goes on
delete_all_outlets ==
    /\ job.pc = "delete_all"
    /\ \/ /\ collection' = << >>
          /\ job' = [job EXCEPT !.pc = "scrape", !.t = 1, !.mirror = << >>,
                                !.log = Append(@, "delete_all_outlets")]
       \/ /\ collection' = collection
          /\ job' = [job EXCEPT !.pc = "scrape", !.t = 1, !.mirror = KeyTerms(collection),
                                !.log = Append(@, "delete_failed")]
    /\ UNCHANGED << clock, others, store_rest >>

\* outlet_service.py lines 456-463: the next term of the loop
rescrape_term ==
    /\ job.pc = "scrape"
    /\ \E outlets \in StoreOutcomes :
         job' = ScrapeAndStore(job, job.terms[job.t], FALSE, outlets, clock)
    /\ UNCHANGED << collection, clock, others, store_rest >>

\* outlet_service.py lines 406-420 for another request (DELETE /outlets)
other_delete_all ==
    /\ InFlight
    /\ "delete_all" \notin others
    /\ collection' = << >>
    /\ others' = others \cup { "delete_all" }
    /\ UNCHANGED << job, clock, store_rest >>

\* outlet_service.py lines 176-183 for another scrape_and_store_outlets call:
\* its insert_one, which the unique index lets through
other_insert_one(o, term) ==
    /\ InFlight
    /\ "insert_one" \notin others
    /\ LET oc == OutletCreate(o, term, clock) IN
       /\ FindOne(collection, oc) = 0
       /\ collection' = Append(collection, NewDocument(oc, clock, clock))
    /\ clock' = clock + 1
    /\ others' = others \cup { "insert_one" }
    /\ UNCHANGED << job, store_rest >>

NextStore ==
    \/ \E term \in StoreTerms, overwrite \in BOOLEAN : scrape_and_store_outlets(term, overwrite)
    \/ find_one_outlet
    \/ write_document
    \/ get_all_search_terms
    \/ delete_all_outlets
    \/ rescrape_term
    \/ other_delete_all
    \/ \E o \in GoodOutlets, term \in StoreTerms : other_insert_one(o, term)

SpecStore == InitStore /\ [][NextStore]_vars

-----------------------------------------------------------------------------
(* Properties *)

\* a text with something left after trimming
HasText(t) == \E k \in DOMAIN t : t[k] \notin Whitespace

\* a card with a name element whose text is not blank
Named(c) == c.name # None /\ HasText(c.name[1])

\* a card with a first address text that is not blank
Addressed(c) == c.addressText # << >> /\ HasText(c.addressText[1])

\* the records of the named cards of a card list, in the order of the list
RecordsOf(cards) ==
    LET kept == SelectSeq(cards, Named)
    IN  [i \in 1..Len(kept) |-> extract_outlet_info(kept[i]).data[1]]

\* C1: on every exit path of scrape_outlets, normal or by an exception of any
\* step, the browser this call launched has been quit when the call ends.
C1_SessionClosedOnEveryExit ==
    (pc = "done" /\ opened # 0) => browsers[opened] >= 1

C1_Witness ==
    /\ pc = "done" /\ outcome = "raised" /\ failed_at = "advance"
    /\ opened # 0 /\ browsers[opened] = 1

\* C2: an error during searching, navigation, extraction, the next-page check or
\* the page advance makes scrape_outlets raise; its caller gets no list, neither
\* partial nor empty, also when records of earlier pages had been accumulated.
C2_ErrorRaisesNoList ==
    (pc = "done" /\ failed_at # "none") => (outcome = "raised" /\ result = None)

C2_Witness ==
    /\ pc = "done" /\ failed_at = "advance" /\ all_outlets # << >>
    /\ outcome = "raised" /\ result = None

\* C3: a structural failure (site unreachable, search controls not found, initial
\* page without its listing) makes scrape_outlets raise for any search term, so
\* that a returned empty list means a listing that matched zero outlets.
C3_StructuralFailureRaises ==
    /\ (pc = "done" /\ initial_page \in { "unreachable", "no_controls", "no_listing", "broken" })
          => outcome = "raised"
    /\ (pc = "done" /\ outcome = "returned" /\ result = Some(<< >>))
          => initial_page = "listing"

\* C4: a record of _extract_outlet_info has a waze_link if and only if it has both
\* latitude and longitude, zero included, and the link is built from those two.
C4_WazeLinkIffCoordinates ==
    pc = "record" =>
        LET d == outlet_data[1] IN
        /\ (d.waze_link # None) <=> (d.latitude # None /\ d.longitude # None)
        /\ d.waze_link # None => d.waze_link[1] = WazeLink(d.latitude[1], d.longitude[1])

\* C5: a card without a name element, or whose name is blank after trimming, is
\* left out: no accumulated or returned record has an empty name, and the list
\* holds as many records as named cards were shown.
C5_NoRecordWithoutName ==
    /\ \A i \in DOMAIN all_outlets : all_outlets[i].name # << >>
    /\ outcome = "returned" => \A i \in DOMAIN result[1] : result[1][i].name # << >>
    /\ failed_at # "extract" => Len(all_outlets) = Cardinality({ i \in DOMAIN shown : Named(shown[i]) })

C5_Witness ==
    /\ pc = "done" /\ outcome = "returned"
    /\ \E i, j \in DOMAIN shown : shown[i] = CardBlankName /\ shown[j] = CardNoName
    /\ Len(result[1]) = 1

C7_ResultIsConcatenation ==
    /\ failed_at # "extract" => all_outlets = RecordsOf(shown)
    /\ outcome = "returned" => result = Some(RecordsOf(shown))

C7_Witness ==
    /\ pc = "done" /\ outcome = "returned" /\ page_number = 2
    /\ shown = << CardNoAddress, CardBlankName, CardFull >>
    /\ Len(result[1]) = 2 /\ result[1][1].address = << >>

\* C8: after a page is extracted the loop extracts another one if and only if
\* _has_next_page returned true and then _go_to_next_page returned true; a false
\* from either ends the loop, and the call then returns the accumulated records.
C8_LoopContinuesIffBothTrue ==
    [][ /\ (pc = "has_next" /\ has_next_ret' = "true") => pc' = "go_next"
        /\ (pc = "has_next" /\ has_next_ret' = "false")
              => (pc' = "finally" /\ pending' = "none" /\ advance_ret' = "none")
        /\ (pc = "go_next" /\ advance_ret' = "true") => pc' = "extract"
        /\ (pc = "go_next" /\ advance_ret' = "false")
              => (pc' = "finally" /\ pending' = "none")
        /\ (pc \in { "has_next", "go_next" } /\ pc' = "extract")
              => (has_next_ret = "true" /\ advance_ret' = "true")
        /\ (pc = "finally" /\ pending = "none")
              => (outcome' = "returned" /\ result' = Some(all_outlets))
      ]_vars

C8_Witness ==
    /\ pc = "done" /\ outcome = "returned" /\ page_number = 2
    /\ has_next_ret = "true" /\ advance_ret = "false" /\ result # Some(<< >>)

\* C9: the pagination loop always terminates, also when the advance keeps
\* returning true over a page that stays the same.
C9_Terminates == <>(pc = "done")

\* C10: a page whose card list times out contributes no record and the scrape
\* goes on to the next-page check without raising, keeping the records of the
\* other pages; with no card on the only page and no next page the call returns
\* an empty list.
C10_TimeoutPageContributesNothing ==
    /\ [][ (pc = "extract" /\ dom.cards = << >>)
              => /\ pending' # "TimeoutException"
                 /\ pending' = "none" => (all_outlets' = all_outlets /\ pc' = "has_next")
         ]_vars
    /\ []((pc = "done" /\ page_number = 1 /\ shown = << >> /\ failed_at = "none")
              => (outcome = "returned" /\ result = Some(<< >>)))

C10_Witness ==
    /\ pc = "done" /\ outcome = "returned" /\ page_number = 2
    /\ dom.cards = << >> /\ result # Some(<< >>)

\* the least element of a non-empty set of integers
Min(S) == CHOOSE m \in S : \A n \in S : m <= n

\* C13: operating_hours is the text, newlines turned into spaces, of the first
\* tooltip-text node whose lowercased text contains one of hours, hour, 24, am,
\* pm, whatever non-matching nodes precede it, and "8am - 12pm" when no node
\* matches; the list ["Open daily", "9am-10pm Hours"] gives "9am-10pm Hours".
C13_OperatingHours ==
    pc = "record" =>
        LET tips == card[1].tooltips
            matching == { i \in DOMAIN tips :
                            \E kw \in { Chars("hours"), Chars("hour"), Chars("24"),
                                        Chars("am"), Chars("pm") } :
                                Contains(Lower(tips[i]), kw) }
            hours == outlet_data[1].operating_hours
        IN  /\ hours = IF matching = {}
                       THEN Chars("8am - 12pm")
                       ELSE Replace(tips[Min(matching)], << NL >>, << WS >>)
            /\ tips = << Chars("Open daily"), Chars("9am-10pm Hours") >>
                   => hours = Chars("9am-10pm Hours")

C13_Witness ==
    /\ pc = "record"
    /\ card[1].tooltips = << Chars("Open daily"), Chars("9am-10pm Hours") >>
    /\ outlet_data[1].operating_hours = Chars("9am-10pm Hours")

\* the address-text nodes of the card in hand that carry a label
LabelledNodes ==
    { i \in DOMAIN card[1].addressText :
        \E label \in { Chars("Tel:"), Chars("Fax:"), Chars("Phone:") } :
            Contains(card[1].addressText[i], label) }

\* the anchors of the card in hand whose href starts with "tel:"
TelAnchors ==
    { i \in DOMAIN card[1].anchors : StartsWith(card[1].anchors[i], Chars("tel:")) }

\* where the telephone of the card in hand comes from: the text of the first
\* labelled node, else the href of the first tel: anchor, else nothing
TelephoneSource ==
    IF LabelledNodes # {}
    THEN [kind |-> "text", value |-> card[1].addressText[Min(LabelledNodes)]]
    ELSE IF TelAnchors # {}
    THEN [kind |-> "href", value |-> card[1].anchors[Min(TelAnchors)]]
    ELSE [kind |-> "none", value |-> << >>]

\* C14 as stated: telephone is the text of the first labelled address-text
\* node; without one, the href of the first tel: anchor with that prefix cut
\* off; absent when neither exists.
C14_TelephonePrefixStripped ==
    (pc = "record" /\ card[1].fault = "none") =>
        outlet_data[1].telephone =
            IF TelephoneSource.kind = "href"
            THEN SubSeq(TelephoneSource.value, 5, Len(TelephoneSource.value))
            ELSE TelephoneSource.value

\* C14: telephone is the text of the first labelled address-text node; without
\* one, the href of the first tel: anchor with every "tel:" removed and the
\* rest trimmed; absent when neither exists.
C14_TelephoneTrimmed ==
    (pc = "record" /\ card[1].fault = "none") =>
        outlet_data[1].telephone =
            IF TelephoneSource.kind = "href"
            THEN Strip(Replace(TelephoneSource.value, Chars("tel:"), << >>))
            ELSE TelephoneSource.value

C14_Witness ==
    /\ pc = "record"
    /\ LabelledNodes = {} /\ TelAnchors # {}
    /\ card[1].anchors[Min(TelAnchors)] = Chars("tel: 04")
    /\ outlet_data[1].telephone = Chars("04")

\* the script nodes of the card in hand that parse, hold a geo object with both
\* keys and whose two values float() accepts
CompleteGeoNodes ==
    { i \in DOMAIN card[1].scripts :
        LET sc == card[1].scripts[i] IN
        /\ sc.kind = "geo"
        /\ sc.lat # None /\ sc.lng # None
        /\ Float(sc.lat[1]) # None /\ Float(sc.lng[1]) # None }

\* C12: latitude and longitude are those of the first script node that parses
\* and holds a geo object with both keys and coercible values; every other node
\* is skipped without contributing a value and without stopping the scan, so
\* both stay absent when no node is complete.
C12_CoordinatesFromFirstCompleteNode ==
    pc = "record" =>
        IF CompleteGeoNodes = {}
        THEN /\ outlet_data[1].latitude = None
             /\ outlet_data[1].longitude = None
        ELSE LET sc == card[1].scripts[Min(CompleteGeoNodes)] IN
             /\ outlet_data[1].latitude = Float(sc.lat[1])
             /\ outlet_data[1].longitude = Float(sc.lng[1])

\* the cleaned tags of the card in hand, one per readable anchor that has one
CardTags ==
    IF card[1].addressTop = None
    THEN { }
    ELSE { CleanTag(a.content) :
             a \in { b \in { card[1].addressTop[1][k] : k \in DOMAIN card[1].addressTop[1] } :
                       b.tip = "text" } } \ { << >> }

\* a sequence without repeated elements
NoRepeats(seq) == \A i, j \in DOMAIN seq : seq[i] = seq[j] => i = j

\* C15 as stated: splitting the attribute of a record on ", " gives no tag more
\* than once, whatever the tag texts of the card.
C15_SplitHasNoRepeats ==
    pc = "record" => NoRepeats(Split(outlet_data[1].attribute, Chars(", ")))

\* C15: the attribute is the join with ", " of pairwise distinct tags of the
\* card; when no tag contains ", " itself, splitting the attribute on ", "
\* gives no tag more than once.
C15_JoinedTagsDistinct ==
    (pc = "record" /\ outlet_data[1].attribute # << >>) =>
        /\ \E tags \in SeqsUpTo(CardTags, Cardinality(CardTags)) :
              /\ NoRepeats(tags)
              /\ outlet_data[1].attribute = Join(tags, Chars(", "))
        /\ (\A t \in CardTags : ~ Contains(t, Chars(", ")))
              => NoRepeats(Split(outlet_data[1].attribute, Chars(", ")))

C15_Witness ==
    /\ pc = "record"
    /\ card[1].addressTop # None
    /\ Len(card[1].addressTop[1]) = 3
    /\ \A k \in 1..3 : card[1].addressTop[1][k].tip = "text"
    /\ CardTags = { Chars("WiFi"), Chars("B") }
    /\ Len(Split(outlet_data[1].attribute, Chars(", "))) = 2

\* C16: a failure on one tooltip anchor, a missing tooltip-text node or a
\* text content that cannot be read, skips only that anchor; the tags of all
\* other anchors of the card are in the record's attribute.
C16_OtherAnchorsKept ==
    (pc = "record" /\ card[1].fault = "none") =>
        \A t \in CardTags : Contains(outlet_data[1].attribute, t)

\* the record of the card in hand had no field of it failed
IntactRecord == extract_outlet_info([card[1] EXCEPT !.fault = "none"]).data[1]

\* the intact record with the field that fails on the card in hand at its default
DegradedRecord ==
    CASE card[1].fault = "name" -> [IntactRecord EXCEPT !.name = << >>]
      [] card[1].fault = "address" -> [IntactRecord EXCEPT !.address = << >>]
      [] card[1].fault = "operating_hours" ->
             [IntactRecord EXCEPT !.operating_hours = Chars("8am - 12pm")]
      [] card[1].fault = "coordinates" ->
             [IntactRecord EXCEPT !.latitude = None, !.longitude = None,
                                  !.waze_link = None]
      [] card[1].fault = "telephone" -> [IntactRecord EXCEPT !.telephone = << >>]
      [] card[1].fault = "attribute" -> [IntactRecord EXCEPT !.attribute = << >>]

\* C11: a failure while extracting one field of a card never leaves
\* _extract_outlet_info: the call returns a record in which the failing field has
\* its default and every other field is what it is without the failure.
C11_FieldFailureContained ==
    (pc \in { "record", "card_raised" } /\ card[1].fault \in FieldFaults) =>
        /\ pending = "none"
        /\ outlet_data = Some(DegradedRecord)

\* C17: whatever the interleaving of concurrent calls, the browser a call
\* drives is the one this call started, every step on a browser is a step of
\* the call that started it, and a browser is closed by that call only.
C17_SessionsIsolated ==
    /\ \A c \in DOMAIN calls :
          calls[c].driver # 0 => chromes[calls[c].driver].launched_by = c
    /\ \A k \in DOMAIN chromes :
          /\ chromes[k].used_by \subseteq { chromes[k].launched_by }
          /\ chromes[k].quit_by \subseteq { chromes[k].launched_by }

\* C20: after any interleaving of scrape_and_store_outlets calls, with either
\* value of overwrite_existing, the collection holds at most one document per
\* (name, address) pair.
C20_OneDocumentPerNameAndAddress ==
    \A a, b \in DOMAIN collection :
        (collection[a].name = collection[b].name
            /\ collection[a].address = collection[b].address) => a = b

\* the POST requests that have been answered
AnsweredPosts == { r \in DOMAIN requests : r # ReaderId /\ requests[r].pc = "done" }

\* C18: a scrape that raises is answered with HTTP 500 by POST /scrape-outlets
\* and by POST /save-outlets alike, never with a 200 body.
C18_RaisingScrapeIs500 ==
    \A r \in AnsweredPosts :
        requests[r].scrape = "raised" => requests[r].response[1].status = 500

\* C19: a scrape that completes with zero outlets is reported as a success,
\* success true with no outlets and zero counts, by POST /scrape-outlets and by
\* scrape_and_store_outlets, and its success flag is not the one reported for a
\* scrape that failed.
C19_ZeroMatchIsSuccess ==
    \A r \in AnsweredPosts :
        requests[r].scrape = "empty" =>
            /\ requests[r].response[1].status = 200
            /\ requests[r].response[1].success
            /\ requests[r].response[1].total = 0
            /\ requests[r].response[1].saved = 0
            /\ \A q \in AnsweredPosts :
                  (requests[q].scrape = "raised"
                      /\ requests[q].endpoint = requests[r].endpoint)
                  => requests[q].response[1].success # requests[r].response[1].success

\* the steps of scrape_outlets that act on the page
PageSteps == { "search", "base_url", "extract", "has_next", "advance" }

\* C21: the steps of scrape_outlets come in this order: session open; the
\* search form when the term is not empty and the base URL otherwise; then
\* extraction and next-page check in turn, extraction first; then session
\* close.  No page step comes before the open or after the close.
C21_StepOrder ==
    [][trail' # trail =>
         /\ trail' \in { "open", "open_failed" } => trail = "none"
         /\ trail' = "search" => (trail = "open" /\ search_term # "")
         /\ trail' = "base_url" => (trail = "open" /\ search_term = "")
         /\ trail' = "extract" => trail \in { "search", "base_url", "advance" }
         /\ trail' = "has_next" => trail = "extract"
         /\ trail' = "advance" => trail = "has_next"
         /\ trail' \in PageSteps => trail \notin { "none", "open_failed", "close" }
         /\ trail # "close"
         /\ pc' = "done" => trail' = "close"]_vars

C21_Witness ==
    /\ pc = "done" /\ trail = "close"
    /\ search_term # "" /\ page_number >= 2 /\ outcome = "returned"

\* C22: _has_next_page returns true exactly when some control matching a
\* next-page signature is enabled, whatever the number and order of the
\* matching controls, and false without raising when there is none.
C22_TrueIffSomeControlEnabled ==
    [][(pc = "has_next" /\ pc' # "has_next" /\ has_next_ret' # "raised") =>
         (has_next_ret' = "true" <=>
             \E i \in DOMAIN dom.controls : dom.controls[i])]_vars

\* no browser of this instance is running: each one launched has been quit
NoOpenSession == \A b \in DOMAIN browsers : browsers[b] >= 1

\* C23: once scrape_outlets has returned or raised, the instance holds no
\* session: none of its browsers is open, and _ensure_driver_ready raises
\* RuntimeError for a step attempted then, as it does before the first setup.
C23_NoSessionAfterCall ==
    pc = "done" => (NoOpenSession /\ ~ ensure_driver_ready(driver, wait))

\* C28: over the calls of one instance, also those whose driver setup fails
\* before a browser is launched, every launched browser is quit exactly once:
\* none is running when its call has ended, none is quit again by a later call.
C28_EveryBrowserQuitOnce ==
    pc = "done" => \A b \in DOMAIN browsers : browsers[b] = 1

\* the geo nodes of the card in hand every present coordinate of which coerces
CoercibleGeoNodes ==
    { i \in DOMAIN card[1].scripts :
        LET sc == card[1].scripts[i] IN
        /\ sc.kind = "geo"
        /\ sc.lat # None => Float(sc.lat[1]) # None
        /\ sc.lng # None => Float(sc.lng[1]) # None }

\* C29: latitude and longitude of a record come from one JSON-LD node: a node
\* on which the coercion of a coordinate fails contributes neither, and values
\* of two nodes are never combined in a record or its waze_link.
C29_CoordinatesFromOneNode ==
    pc = "record" =>
        \/ /\ outlet_data[1].latitude = None
           /\ outlet_data[1].longitude = None
           /\ outlet_data[1].waze_link = None
        \/ \E i \in CoercibleGeoNodes :
              LET sc == card[1].scripts[i] IN
              /\ outlet_data[1].latitude =
                    (IF sc.lat = None THEN None ELSE Float(sc.lat[1]))
              /\ outlet_data[1].longitude =
                    (IF sc.lng = None THEN None ELSE Float(sc.lng[1]))

\* the steps rescrape_all_outlets takes for the terms it read
RescrapeSteps(terms) ==
    IF terms = << >> THEN << "get_all_search_terms" >>
    ELSE << "get_all_search_terms", "delete_all_outlets" >> \o terms

\* the log with a delete_many that raised counted as the delete step
StepsTaken ==
    [k \in DOMAIN job.log |->
        IF job.log[k] = "delete_failed" THEN "delete_all_outlets" ELSE job.log[k]]

\* C24: in rescrape_all_outlets every outlet was deleted before, so scraping
\* each term with overwrite_existing=False leaves the collection as
\* overwrite_existing=True would: the same documents with the same search_term,
\* also when an outlet is returned for more than one term.
C24_OverwriteMakesNoDifference ==
    (/\ job.kind = "rescrape" /\ job.pc = "done" /\ others = { }
     /\ \E k \in DOMAIN job.log : job.log[k] = "delete_all_outlets")
        => KeyTerms(collection) = job.mirror

OwnStep == job' # job /\ others' = others

\* C26: for a record whose (name, address) exists, _store_outlets with
\* overwrite_existing=False leaves the document as it is and does not count
\* the record; with overwrite_existing=True it replaces operating_hours,
\* waze_link, latitude, longitude, telephone, attribute, embedding,
\* search_term, scraped_at and updated_at and leaves _id, name, address and
\* created_at; no other document is modified.
C26_UpdateFrame ==
    [][/\ (/\ OwnStep /\ job.pc = "find_one" /\ ~ job.overwrite_existing
           /\ FindOne(collection, job.outlet_create[1]) # 0)
          => (collection' = collection /\ job'.outlets_saved = job.outlets_saved)
       /\ (OwnStep /\ job.pc = "write" /\ job.existing_outlet # None)
          => /\ DOMAIN collection' = DOMAIN collection
             /\ job'.outlets_saved = job.outlets_saved + 1
             /\ \A k \in DOMAIN collection :
                  LET old == collection[k]
                      new == collection'[k]
                      oc == job.outlet_create[1]
                  IN  IF old.id # job.existing_outlet[1].id
                      THEN new = old
                      ELSE /\ new.id = old.id /\ new.name = old.name
                           /\ new.address = old.address
                           /\ new.created_at = old.created_at
                           /\ new.operating_hours = oc.operating_hours
                           /\ new.waze_link = oc.waze_link
                           /\ new.latitude = oc.latitude
                           /\ new.longitude = oc.longitude
                           /\ new.telephone = oc.telephone
                           /\ new.attribute = oc.attribute
                           /\ new.embedding = oc.embedding
                           /\ new.search_term = oc.search_term
                           /\ new.scraped_at = oc.scraped_at
                           /\ new.updated_at = clock
      ]_vars

C26_Witness ==
    /\ job.kind = "scrape_and_store" /\ job.pc = "done" /\ job.overwrite_existing
    /\ others = { } /\ Len(collection) = 2
    /\ collection[1].created_at = 1 /\ collection[1].updated_at > 2
    /\ collection[1].telephone = "fresh" /\ collection[1].search_term = "Bangsar"
    /\ collection[2] = StoredN("Bangsar", 2)

\* a record that gets as far as find_one
ReachesFindOne(o) ==
    /\ o.name # << >> /\ o.address # << >>
    /\ o.fault # "embedding"
    /\ HasText(o.name) /\ HasText(o.address)

\* C27: a failure while one record is stored (validation, embedding,
\* duplicate key, database) skips that record only: the records after it are
\* processed in order and the call does not raise; records without name or
\* address are skipped and not counted.
C27_FailureSkipsOneRecord ==
    [][(/\ OwnStep /\ job'.scraped # << >> /\ job'.pc # "write"
        /\ job.pc \in { "idle", "scrape", "find_one", "write" })
          => LET from == IF job.pc \in { "find_one", "write" } THEN job.i ELSE 0
                 rest == { k \in (from + 1)..Len(job'.scraped) :
                             ReachesFindOne(job'.scraped[k]) }
                 storable == { k \in DOMAIN job'.scraped :
                                 /\ ReachesFindOne(job'.scraped[k])
                                 /\ job'.scraped[k].fault = "none" }
             IN  /\ job'.outlets_saved - job.outlets_saved \in { 0, 1 }
                    \/ job.pc \in { "idle", "scrape" }
                 /\ IF rest = { }
                    THEN /\ job'.result = Result(TRUE, Len(job'.scraped), job'.outlets_saved)
                         /\ job'.outlets_saved <= Cardinality(storable)
                    ELSE /\ job'.pc = "find_one"
                         /\ job'.i = Min(rest)
      ]_vars

C27_Witness ==
    /\ job.kind = "scrape_and_store" /\ job.pc = "done"
    /\ Len(job.scraped) = 2 /\ job.scraped[1].fault = "embedding"
    /\ job.scraped[2] = OutletM
    /\ job.result = Result(TRUE, 2, 1)
    /\ \E k \in DOMAIN collection : collection[k].telephone = "fresh"

\* C30: under any interleaving with other database operations, the
\* outlets_saved a scrape_and_store_outlets call reports is the number of
\* documents the call inserted or modified, and is at most outlets_scraped.
C30_SavedCountsWrites ==
    job.result # None =>
        /\ job.result[1].outlets_saved = job.touched
        /\ job.result[1].outlets_saved <= job.result[1].outlets_scraped

====
